---- MODULE Spec2Model ----
(***************************************************************************)
(* zkviz.network_plotly.NetworkPlotly: a networkx.Graph that add_node and  *)
(* add_edge fill, build_plotly_figure turns into a plotly figure (node     *)
(* scatter trace plus one arrow annotation per edge) and render writes to  *)
(* an .html file.                                                          *)
(*                                                                         *)
(* The graph is kept the way networkx.Graph keeps it: two insertion-       *)
(* ordered dicts, _node (identifier -> attributes) and _adj (identifier -> *)
(* insertion-ordered dict of neighbours). An ordered dict is a sequence.   *)
(***************************************************************************)
EXTENDS Integers, Sequences, FiniteSets, TLC

VARIABLES
    graph,      \* self.graph: [node |-> seq of ids, adj |-> seq of [key, nbrs]]
    op,         \* the most recent call: [name, args]
    fig,        \* the figure the most recent call built (or the exception raised)
    pos,        \* the most recent call's local pos: [none, dict]
    layout,     \* the networkx layout function the most recent call ran
    held,       \* len(self.graph) when the most recent call was entered
    written,    \* the file name the most recent call gave fig.write_html
    referenced, \* history: identifiers passed to add_node / add_edge, kept
                \* for as long as no figure has been built
    added,      \* history: {source, target} of every add_edge call so far
    built,      \* history: build_plotly_figure has run at least once
    isolated,   \* size view of the graph: number of nodes without an edge
    connected   \* size view of the graph: number of nodes with an edge

vars == <<graph, op, fig, pos, layout, held, written, referenced, added,
          built, isolated, connected>>

(***************************************************************************)
(* Bounds and inputs.                                                      *)
(***************************************************************************)
MaxEdges == 2

\* node_id : str, or int
StrIds == {[type |-> "str", v |-> "A"], [type |-> "str", v |-> "B"],
           [type |-> "str", v |-> "C"]}
IntIds == {[type |-> "int", v |-> "1"]}
MixedIds == {[type |-> "str", v |-> "A"], [type |-> "str", v |-> "B"]}
            \cup IntIds

\* (x, y) pairs a layout or a caller's pos dict can hold
Coords == {<<0, 1>>, <<1, 0>>}

(***************************************************************************)
(* Insertion-ordered dicts.                                                *)
(***************************************************************************)
Has(seq, x) == \E i \in 1..Len(seq) : seq[i] = x

Range(seq) == {seq[i] : i \in 1..Len(seq)}

Without(seq, x) == SelectSeq(seq, LAMBDA e : e # x)

Nbrs(adj, n) == adj[CHOOSE i \in 1..Len(adj) : adj[i].key = n].nbrs

EmptyGraph == [node |-> <<>>, adj |-> <<>>]

EmptyDict == [n \in {} |-> <<0, 0>>]

(***************************************************************************)
(* networkx.Graph, as the class uses it.                                   *)
(***************************************************************************)
\* variant: add_node that inserts without looking whether the key is there
nx_add_node_again(G, n) ==
    [node |-> Append(G.node, n),
     adj  |-> Append(G.adj, [key |-> n, nbrs |-> <<>>])]

\* Graph.add_node: a new key is appended to _adj and to _node; an existing
\* one is left where it is.
nx_add_node(G, n) ==
    IF Has(G.node, n) THEN G
    ELSE [node |-> Append(G.node, n),
          adj  |-> Append(G.adj, [key |-> n, nbrs |-> <<>>])]

\* _adj[u][v] = datadict: appends v to u's neighbours unless already a key.
SetNbr(adj, u, v) ==
    [i \in 1..Len(adj) |->
        IF adj[i].key = u /\ ~Has(adj[i].nbrs, v)
        THEN [adj[i] EXCEPT !.nbrs = Append(@, v)]
        ELSE adj[i]]

\* Graph.add_edge: creates either endpoint if absent, then stores the edge
\* under both endpoints.
nx_add_edge(G, u, v) ==
    LET G2 == nx_add_node(nx_add_node(G, u), v)
    IN  [G2 EXCEPT !.adj = SetNbr(SetNbr(G2.adj, u, v), v, u)]

\* variant: a degree that counts the other nodes only, not a self-loop
nx_degree_others(G, n) == Len(Without(Nbrs(G.adj, n), n))

\* Graph.degree: a self-loop counts twice.
nx_degree(G, n) ==
    Len(Nbrs(G.adj, n)) + (IF Has(Nbrs(G.adj, n), n) THEN 1 ELSE 0)

\* nx.isolates: the nodes of degree zero, in node order.
nx_isolates(G) == SelectSeq(G.node, LAMBDA n : nx_degree(G, n) = 0)

\* Graph.remove_node, for one node.
nx_remove_node(G, n) ==
    IF ~Has(G.node, n) THEN G
    ELSE [node |-> Without(G.node, n),
          adj  |-> LET kept == SelectSeq(G.adj, LAMBDA e : e.key # n)
                   IN  [i \in 1..Len(kept) |->
                           [kept[i] EXCEPT !.nbrs = Without(@, n)]]]

\* Graph.remove_nodes_from
RECURSIVE nx_remove_nodes_from(_, _)
nx_remove_nodes_from(G, ns) ==
    IF ns = <<>> THEN G
    ELSE nx_remove_nodes_from(nx_remove_node(G, Head(ns)), Tail(ns))

\* variant: edges() without the seen set, every edge met from both ends
RECURSIVE EdgesFrom_unseen(_, _)
EdgesFrom_unseen(adj, i) ==
    IF i > Len(adj) THEN <<>>
    ELSE [k \in 1..Len(adj[i].nbrs) |-> <<adj[i].key, adj[i].nbrs[k]>>]
         \o EdgesFrom_unseen(adj, i + 1)

\* Graph.edges(): for every (n, nbrs) of _adj in order, every nbr of n that
\* has not been an n before; then n is marked seen.
RECURSIVE EdgesFrom(_, _)
EdgesFrom(adj, i) ==
    IF i > Len(adj) THEN <<>>
    ELSE LET seen == {adj[j].key : j \in 1..(i - 1)}
             mine == SelectSeq(adj[i].nbrs, LAMBDA nbr : nbr \notin seen)
         IN  [k \in 1..Len(mine) |-> <<adj[i].key, mine[k]>>]
             \o EdgesFrom(adj, i + 1)

nx_edges(G) == EdgesFrom(G.adj, 1)

(***************************************************************************)
(* build_plotly_figure, piece by piece.                                    *)
(***************************************************************************)
LayoutThreshold == 10000

\* variant: the threshold compared with <=
SelectLayout_inclusive(posArg, n) ==
    IF ~posArg.none THEN "none"
    ELSE IF n <= 10000 THEN "fruchterman_reingold_layout"
    ELSE "random_layout"

\* variant: no fallback for large graphs
SelectLayout_no_fallback(posArg, n) ==
    IF ~posArg.none THEN "none" ELSE "fruchterman_reingold_layout"

\* lines 69-74: which layout function computes pos ("none": pos was given)
SelectLayout(posArg, n) ==
    IF ~posArg.none THEN "none"
    ELSE IF n < LayoutThreshold THEN "fruchterman_reingold_layout"
    ELSE "random_layout"

\* "<br>".join([node, self.graph.nodes[node].get("node_id", "")]); no node
\* carries a node_id attribute, so the second item is always "".
\* str.join raises TypeError on an item that is not a str.
JoinRaises(node) == node.type # "str"

NodeText(node) == node.v \o "<br>" \o ""

\* lines 100-105: the first node, in node order, at which the loop raises
\* (0: none). pos[node] is evaluated before the join.
NodeRaises(node, p) == node \notin DOMAIN p \/ JoinRaises(node)

FirstRaise(G, p) ==
    IF \E i \in 1..Len(G.node) : NodeRaises(G.node[i], p)
    THEN CHOOSE i \in 1..Len(G.node) :
            /\ NodeRaises(G.node[i], p)
            /\ \A j \in 1..(i - 1) : ~NodeRaises(G.node[j], p)
    ELSE 0

Raised(G, p) ==
    IF G.node[FirstRaise(G, p)] \notin DOMAIN p THEN "KeyError" ELSE "TypeError"

\* node_trace["x"], ["y"], ["text"]: one entry per node of self.graph.nodes()
TraceX(G, p) == [i \in 1..Len(G.node) |-> p[G.node[i]][1]]

TraceY(G, p) == [i \in 1..Len(G.node) |-> p[G.node[i]][2]]

TraceText(G) == [i \in 1..Len(G.node) |-> NodeText(G.node[i])]

\* variant: the color taken from Graph.degree (a self-loop counts twice)
node_adjacencies_degree(G) ==
    [i \in 1..Len(G.adj) |-> nx_degree(G, G.adj[i].key)]

\* lines 111-116: len(adjacencies[1]) for every item of self.graph.adjacency()
node_adjacencies(G) == [i \in 1..Len(G.adj) |-> Len(G.adj[i].nbrs)]

\* lines 121-143: one annotation per (from_node, to_node) of self.graph.edges()
Annotation(from_node, to_node, p) ==
    [ax |-> p[from_node][1], ay |-> p[from_node][2],
     x  |-> p[to_node][1],   y  |-> p[to_node][2]]

Annotations(G, p) ==
    LET es == nx_edges(G)
    IN  [k \in 1..Len(es) |-> Annotation(es[k][1], es[k][2], p)]

NoFigure == [status |-> "None", x |-> <<>>, y |-> <<>>, text |-> <<>>,
             color |-> <<>>, annotations |-> <<>>]

\* the figure of lines 76-156 for graph G (isolates already removed) and pos p
Figure(G, p) ==
    IF FirstRaise(G, p) # 0
    THEN [NoFigure EXCEPT !.status = Raised(G, p)]
    ELSE [status |-> "Figure",
          x |-> TraceX(G, p), y |-> TraceY(G, p), text |-> TraceText(G),
          color |-> node_adjacencies(G),
          annotations |-> Annotations(G, p)]

\* variant: the isolates are kept
RemoveIsolates_kept(G) == G

\* line 67
RemoveIsolates(G) == nx_remove_nodes_from(G, nx_isolates(G))

\* what a layout function can return for G: a position for every node
Layouts(G) == [Range(G.node) -> Coords]

\* pos=None, or a dict the caller built
NonePos == [none |-> TRUE, dict |-> EmptyDict]

\* The code reads pos[node] for the nodes left in the graph only, so the
\* dicts enumerated have their keys among those.
PosArgs == {NonePos} \cup
           {[none |-> FALSE, dict |-> d] :
               d \in UNION {[D -> Coords] :
                               D \in SUBSET Range(RemoveIsolates(graph).node)}}

\* the state build_plotly_figure(posArg) leaves, the layout returning p
BuildEffect(posArg, p) ==
    LET G == RemoveIsolates(graph)
    IN  /\ graph' = G
        /\ held' = Len(graph.node)
        /\ layout' = SelectLayout(posArg, Len(G.node))
        /\ pos' = [none |-> FALSE, dict |-> p]
        /\ fig' = Figure(G, p)
        /\ built' = TRUE
        /\ referenced' = {}

PosChoices(posArg) ==
    IF posArg.none THEN Layouts(RemoveIsolates(graph)) ELSE {posArg.dict}

(***************************************************************************)
(* render's output name.                                                   *)
(***************************************************************************)
HtmlSuffix == <<".", "h", "t", "m", "l">>

\* str.endswith
endswith(s, suffix) ==
    /\ Len(s) >= Len(suffix)
    /\ SubSeq(s, Len(s) - Len(suffix) + 1, Len(s)) = suffix

\* variant: the suffix tested without its dot
OutputName_no_dot(output) ==
    IF ~endswith(output, <<"h", "t", "m", "l">>)
    THEN output \o HtmlSuffix ELSE output

\* lines 172-173
OutputName(output) ==
    IF ~endswith(output, HtmlSuffix) THEN output \o HtmlSuffix ELSE output

NotWritten == <<>>

(***************************************************************************)
(* The calls.                                                              *)
(***************************************************************************)
NumEdges(G) == Len(nx_edges(G))

WithinBounds(G) == NumEdges(G) <= MaxEdges

Init ==
    /\ graph = EmptyGraph
    /\ op = [name |-> "__init__", args |-> <<>>]
    /\ fig = NoFigure
    /\ pos = NonePos
    /\ layout = "none"
    /\ held = 0
    /\ written = NotWritten
    /\ referenced = {}
    /\ added = {}
    /\ built = FALSE
    /\ isolated = 0
    /\ connected = 0

add_node(node_id) ==
    /\ WithinBounds(nx_add_node(graph, node_id))
    /\ graph' = nx_add_node(graph, node_id)
    /\ op' = [name |-> "add_node", args |-> <<node_id>>]
    /\ fig' = NoFigure
    /\ pos' = NonePos
    /\ layout' = "none"
    /\ held' = Len(graph.node)
    /\ written' = NotWritten
    /\ referenced' = IF built THEN {} ELSE referenced \cup {node_id}
    /\ UNCHANGED <<added, built, isolated, connected>>

add_edge(source, target) ==
    /\ WithinBounds(nx_add_edge(graph, source, target))
    /\ graph' = nx_add_edge(graph, source, target)
    /\ op' = [name |-> "add_edge", args |-> <<source, target>>]
    /\ fig' = NoFigure
    /\ written' = NotWritten
    /\ referenced' = IF built THEN {} ELSE referenced \cup {source, target}
    /\ pos' = NonePos
    /\ layout' = "none"
    /\ held' = Len(graph.node)
    /\ added' = added \cup {{source, target}}
    /\ UNCHANGED <<built, isolated, connected>>

build_plotly_figure(posArg) ==
    /\ \E p \in PosChoices(posArg) : BuildEffect(posArg, p)
    /\ op' = [name |-> "build_plotly_figure", args |-> <<posArg>>]
    /\ written' = NotWritten
    /\ UNCHANGED <<added, isolated, connected>>

\* fig = self.build_plotly_figure(); output normalised; fig.write_html(...)
\* An exception of build_plotly_figure leaves render before the write.
render(output, view) ==
    /\ \E p \in PosChoices(NonePos) : BuildEffect(NonePos, p)
    /\ op' = [name |-> "render", args |-> <<output, view>>]
    /\ written' = IF fig'.status = "Figure"
                  THEN OutputName(output)
                  ELSE NotWritten
    /\ UNCHANGED <<added, isolated, connected>>

Outputs == {<<"g">>, <<"g">> \o HtmlSuffix}

\* every identifier a str
Next ==
    \/ \E n \in StrIds : add_node(n)
    \/ \E s \in StrIds, t \in StrIds : add_edge(s, t)
    \/ \E a \in PosArgs : build_plotly_figure(a)
    \/ \E o \in Outputs : render(o, FALSE)

Spec == Init /\ [][Next]_vars

\* str and int identifiers
MixedNext ==
    \/ \E n \in MixedIds : add_node(n)
    \/ \E s \in MixedIds, t \in MixedIds : add_edge(s, t)
    \/ \E a \in PosArgs : build_plotly_figure(a)
    \/ \E o \in Outputs : render(o, FALSE)

MixedSpec == Init /\ [][MixedNext]_vars

(***************************************************************************)
(* render on a fresh visualizer, for every output name over Chars of at    *)
(* most MaxLen characters, then once more under the name just written.     *)
(***************************************************************************)
MaxLen == 6

Chars == {".", "h", "t", "m", "l"}

OutputNames == UNION {[1..n -> Chars] : n \in 0..MaxLen}

RenderNext ==
    \/ /\ op.name = "__init__"
       /\ \E o \in OutputNames, v \in BOOLEAN : render(o, v)
    \/ /\ op.name = "render"
       /\ render(written, op.args[2])

RenderSpec == Init /\ [][RenderNext]_vars

(***************************************************************************)
(* The size view: the same calls on a graph of which only the number of    *)
(* nodes without an edge (isolated) and with one (connected) is kept. The  *)
(* layout branch of build_plotly_figure reads nothing else of the graph.   *)
(***************************************************************************)
MaxIsolated == 2
MaxOver == 2

SizeWithinBounds(i, c) ==
    /\ i \in 0..MaxIsolated
    /\ c \in 0..(LayoutThreshold + MaxOver)

\* an endpoint of add_edge is a new identifier, a node without an edge or a
\* node with one
EndpointKinds == {"new", "isolated", "connected"}

Count(kinds, k) == Cardinality({i \in DOMAIN kinds : kinds[i] = k})

\* add_node(node_id); known: node_id is in the graph already
size_add_node(known) ==
    /\ known => isolated + connected > 0
    /\ SizeWithinBounds(IF known THEN isolated ELSE isolated + 1, connected)
    /\ isolated' = IF known THEN isolated ELSE isolated + 1
    /\ op' = [name |-> "add_node", args |-> <<>>]
    /\ layout' = "none"
    /\ held' = isolated + connected
    /\ UNCHANGED <<graph, fig, pos, written, referenced, added, built, connected>>

\* add_edge(source, target), source # target: kinds gives the kind of each
\* endpoint; add_edge(n, n): kinds has one entry
size_add_edge(kinds) ==
    /\ Count(kinds, "isolated") <= isolated
    /\ Count(kinds, "connected") <= connected
    /\ SizeWithinBounds(isolated - Count(kinds, "isolated"),
                        connected + Count(kinds, "isolated") + Count(kinds, "new"))
    /\ isolated' = isolated - Count(kinds, "isolated")
    /\ connected' = connected + Count(kinds, "isolated") + Count(kinds, "new")
    /\ op' = [name |-> "add_edge", args |-> <<>>]
    /\ layout' = "none"
    /\ held' = isolated + connected
    /\ UNCHANGED <<graph, fig, pos, written, referenced, added, built>>

GivenPos == [none |-> FALSE, dict |-> EmptyDict]

\* build_plotly_figure(posArg): lines 67-74
size_build_plotly_figure(posArg) ==
    /\ isolated' = 0
    /\ held' = isolated + connected
    /\ layout' = SelectLayout(posArg, connected)
    /\ op' = [name |-> "build_plotly_figure", args |-> <<posArg>>]
    /\ UNCHANGED <<graph, fig, pos, written, referenced, added, built, connected>>

SizeNext ==
    \/ \E known \in BOOLEAN : size_add_node(known)
    \/ \E kinds \in [1..2 -> EndpointKinds] \cup [1..1 -> EndpointKinds] :
           size_add_edge(kinds)
    \/ \E a \in {NonePos, GivenPos} : size_build_plotly_figure(a)

LayoutSpec == Init /\ [][SizeNext]_vars

(***************************************************************************)
(* Vocabulary of the properties. The history variables give an account of  *)
(* the calls that does not go through the graph.                           *)
(***************************************************************************)
\* identifiers that were a source or target of some add_edge call
Endpoints == UNION added

\* distinct identifiers that some add_edge call joined to n (n itself for a
\* self-loop)
AdjacentTo(n) == {m \in Endpoints : {n, m} \in added}

IsBuild(o) == o.name = "build_plotly_figure"

Builds(o) == o.name \in {"build_plotly_figure", "render"}

Label(n) == n.v \o "<br>"

\* the annotation of an arrow from the position of u to the position of v
Arrow(p, u, v) ==
    [ax |-> p[u][1], ay |-> p[u][2], x |-> p[v][1], y |-> p[v][2]]

\* annotation a joins the positions of the two endpoints of edge e
Joins(a, e, p) == \E u \in e, v \in e : {u, v} = e /\ a = Arrow(p, u, v)

\* ---------------------------------------------------------------- C1
\* C1: as long as no figure has been built, the node set of the graph is
\* exactly the set of identifiers passed to add_node or to add_edge, each
\* held once; and add_node of an identifier the graph already holds leaves
\* the whole graph (nodes and edges) as it was.
C1_NodeSetIsReferenced ==
    [][ /\ ~built' =>
            /\ Range(graph'.node) = referenced'
            /\ Len(graph'.node) = Cardinality(referenced')
            /\ {graph'.adj[i].key : i \in 1..Len(graph'.adj)} = referenced'
        /\ (op'.name = "add_node" /\ Has(graph.node, op'.args[1])) =>
            graph' = graph ]_vars

\* add_node was just called for an identifier that an earlier add_edge had
\* brought into the graph, on a visualizer that never built a figure
C1_Witness ==
    /\ ~built
    /\ op.name = "add_node"
    /\ op.args[1] \in Endpoints
    /\ Cardinality(referenced) = 3

\* ---------------------------------------------------------------- C2
\* C2: the node list of a figure that build_plotly_figure returns holds
\* exactly the nodes with at least one incident edge (a self-loop counts),
\* each once, and none without an edge.
C2_FigureNodesAreConnected ==
    (IsBuild(op) /\ fig.status = "Figure") =>
        /\ Len(fig.text) = Cardinality(Endpoints)
        /\ Range(fig.text) = {Label(n) : n \in Endpoints}
        /\ Len(fig.x) = Len(fig.text)
        /\ Len(fig.y) = Len(fig.text)

\* nodes {A, B, C} with the single edge (A, B): 2 nodes, 1 annotation
C2_Witness ==
    /\ IsBuild(op) /\ fig.status = "Figure"
    /\ held = 3
    /\ added = {{[type |-> "str", v |-> "A"], [type |-> "str", v |-> "B"]}}
    /\ fig.text = <<"A<br>", "B<br>">>
    /\ Len(fig.annotations) = 1

\* ---------------------------------------------------------------- C3
\* C3: a returned figure has exactly one arrow annotation per edge, an edge
\* being a pair of identifiers joined by add_edge at least once in either
\* orientation (a self-loop included): the annotations correspond one to
\* one to the edges, each running between the positions of the two
\* endpoints of its edge.
C3_OneAnnotationPerEdge ==
    (IsBuild(op) /\ fig.status = "Figure") =>
        /\ Len(fig.annotations) = Cardinality(added)
        /\ \E f \in [1..Len(fig.annotations) -> added] :
            /\ \A i, j \in 1..Len(fig.annotations) : f[i] = f[j] => i = j
            /\ \A i \in 1..Len(fig.annotations) :
                   Joins(fig.annotations[i], f[i], pos.dict)

\* a figure of two edges, one of them a self-loop, whose arrows differ
C3_Witness ==
    /\ IsBuild(op) /\ fig.status = "Figure"
    /\ Cardinality(added) = 2
    /\ \E e \in added : Cardinality(e) = 1
    /\ Len(fig.annotations) = 2
    /\ fig.annotations[1] # fig.annotations[2]

\* ---------------------------------------------------------------- C4
\* C4: the arrow of an edge runs from source to target: when a figure is
\* built right after add_edge(source, target) with source # target, it
\* holds an annotation whose tail is the position of source and whose head
\* is the position of target.
C4_ArrowFromSourceToTarget ==
    [][ (/\ op.name = "add_edge"
         /\ op.args[1] # op.args[2]
         /\ IsBuild(op')
         /\ fig'.status = "Figure") =>
            \E i \in 1..Len(fig'.annotations) :
                fig'.annotations[i] = Arrow(pos'.dict, op.args[1], op.args[2])
      ]_vars

\* ---------------------------------------------------------------- C5
\* C5: in a returned figure the color list is as long as the x, y and text
\* lists, and the color at index i is the number of distinct nodes adjacent
\* to the node whose position and label are at index i (a self-loop counts
\* the node itself once; repeated add_edge calls count once).
C5_ColorIsAdjacencyCount ==
    (IsBuild(op) /\ fig.status = "Figure") =>
        /\ Len(fig.color) = Len(fig.x)
        /\ Len(fig.color) = Len(fig.y)
        /\ Len(fig.color) = Len(fig.text)
        /\ \A i \in 1..Len(fig.text) : \A n \in Endpoints :
               fig.text[i] = Label(n) =>
                   /\ fig.x[i] = pos.dict[n][1]
                   /\ fig.y[i] = pos.dict[n][2]
                   /\ fig.color[i] = Cardinality(AdjacentTo(n))

\* a figure with a node that has a self-loop and one other neighbour
C5_Witness ==
    /\ IsBuild(op) /\ fig.status = "Figure"
    /\ \E n \in Endpoints : {n} \in added /\ Cardinality(AdjacentTo(n)) = 2
    /\ \E i \in 1..Len(fig.color) : fig.color[i] = 2
    /\ \E i \in 1..Len(fig.color) : fig.color[i] = 1

\* ---------------------------------------------------------------- C9
\* C9: build_plotly_figure called without pos returns a figure, with one
\* position and one label per node that has an edge, whether the
\* identifiers are str or int.
C9_FigureForStrAndIntIds ==
    (IsBuild(op) /\ op.args[1].none) =>
        /\ fig.status = "Figure"
        /\ Len(fig.x) = Cardinality(Endpoints)
        /\ Len(fig.y) = Cardinality(Endpoints)
        /\ Len(fig.text) = Cardinality(Endpoints)

\* ---------------------------------------------------------------- C10
\* C10: build_plotly_figure and render change the graph only by deleting
\* the nodes that have no incident edge; every edge ever added stays in the
\* graph with both endpoints; and a build right after a build removes
\* nothing and, for the same positions, gives the same figure.
HasEdge(n) == n \in Endpoints

C10_BuildOnlyDropsIsolates ==
    [][ /\ Builds(op') =>
            /\ graph'.node = SelectSeq(graph.node, HasEdge)
            /\ graph'.adj = SelectSeq(graph.adj, LAMBDA e : HasEdge(e.key))
        /\ \A e \in added' : \A u \in e, v \in e :
               {u, v} = e =>
                   /\ Has(graph'.node, u)
                   /\ Has(Nbrs(graph'.adj, u), v)
        /\ (Builds(op) /\ Builds(op')) =>
            /\ graph' = graph
            /\ (fig.status = "Figure" /\ pos'.dict = pos.dict) => fig' = fig
      ]_vars

\* a build that dropped an isolated node and kept two edges
C10_Witness ==
    /\ IsBuild(op) /\ fig.status = "Figure"
    /\ held > Len(graph.node)
    /\ Cardinality(added) = 2
    /\ Len(fig.annotations) = 2

EndsWithHtml(s) ==
    /\ Len(s) >= 5
    /\ [i \in 1..5 |-> s[Len(s) - 5 + i]] = <<".", "h", "t", "m", "l">>

C8_OutputNameNormalised ==
    [][ (op'.name = "render" /\ fig'.status = "Figure") =>
            /\ EndsWithHtml(written')
            /\ EndsWithHtml(op'.args[1]) => written' = op'.args[1]
            /\ ~EndsWithHtml(op'.args[1]) =>
                   written' = op'.args[1] \o <<".", "h", "t", "m", "l">>
            /\ (op.name = "render" /\ op'.args[1] = written) =>
                   written' = written
      ]_vars

\* render("html"), then render("html.html")
C8_Witness ==
    /\ op.name = "render"
    /\ op.args[1] = <<"h", "t", "m", "l", ".", "h", "t", "m", "l">>
    /\ written = op.args[1]

====
